---- MODULE Spec2Model ----
(***************************************************************************)
(* The Gemini terminal assistants (gemini_enhanced.py, gemini_fixed.py,    *)
(* gemini_cli.py): the main() orchestrator of each variant, the command    *)
(* extractors and the process runner, as one state machine.                *)
(*                                                                         *)
(* Text is a sequence of one-character strings, so that str.strip(),       *)
(* str.lower(), str.find(), str.split() and the regular expressions of the *)
(* source are computed, never assumed.                                     *)
(***************************************************************************)
EXTENDS Integers, Sequences, FiniteSets, TLC

\* ------------------------------------------------------------------ text

NL == "\n"

\* str.isspace() for the characters of the model's alphabet
IsSpace(c) == c \in {" ", "\n", "\t"}

UpperLetters ==
    <<"A","B","C","D","E","F","G","H","I","J","K","L","M",
      "N","O","P","Q","R","S","T","U","V","W","X","Y","Z">>

LowerLetters ==
    <<"a","b","c","d","e","f","g","h","i","j","k","l","m",
      "n","o","p","q","r","s","t","u","v","w","x","y","z">>

LowerChar(c) ==
    IF \E i \in 1..26 : UpperLetters[i] = c
    THEN LowerLetters[CHOOSE i \in 1..26 : UpperLetters[i] = c]
    ELSE c

\* str.lower()
Lower(s) == [i \in 1..Len(s) |-> LowerChar(s[i])]

\* str.strip(chars): drop every leading and trailing character that is in cs
StripSet(s, cs) ==
    LET keep == {i \in 1..Len(s) : s[i] \notin cs}
    IN  IF keep = {} THEN <<>>
        ELSE LET lo == CHOOSE i \in keep : \A j \in keep : i <= j
                 hi == CHOOSE i \in keep : \A j \in keep : j <= i
             IN  SubSeq(s, lo, hi)

\* str.strip()
Strip(s) == StripSet(s, {" ", "\n", "\t"})

\* s[p..] starts with pat (p is 1-based)
MatchesAt(s, p, pat) ==
    /\ p >= 1
    /\ p + Len(pat) - 1 <= Len(s)
    /\ \A i \in 1..Len(pat) : s[p + i - 1] = pat[i]

\* str.startswith()
StartsWith(s, pat) == MatchesAt(s, 1, pat)

\* 1-based index of the first occurrence of pat in s at or after from; 0 if none
FindFrom(s, pat, from) ==
    LET hits == {p \in from..Len(s) : MatchesAt(s, p, pat)}
    IN  IF hits = {} THEN 0
        ELSE CHOOSE p \in hits : \A q \in hits : p <= q

\* str.find(), 1-based, 0 when absent
Find(s, pat) == FindFrom(s, pat, 1)

\* str.rfind() of one character, 1-based, 0 when absent
RFind(s, c) ==
    LET hits == {p \in 1..Len(s) : s[p] = c}
    IN  IF hits = {} THEN 0
        ELSE CHOOSE p \in hits : \A q \in hits : q <= p

RECURSIVE SplitLines(_)
\* str.split('\n')
SplitLines(s) ==
    LET p == Find(s, <<NL>>)
    IN  IF p = 0 THEN <<s>>
        ELSE <<SubSeq(s, 1, p - 1)>> \o SplitLines(SubSeq(s, p + 1, Len(s)))

RECURSIVE Join(_, _)
\* sep.join(words)
Join(sep, words) ==
    IF Len(words) = 0 THEN <<>>
    ELSE IF Len(words) = 1 THEN words[1]
    ELSE words[1] \o sep \o Join(sep, Tail(words))

\* ------------------------------------------------------- the extractors

ExecMarker ==
    <<"E","X","E","C","U","T","E","_","C","O","M","M","A","N","D","(">>

\* The backquote character (written as a word: the character itself cannot
\* stand in a string of this notation)
Tick == "tick"

Fence == <<Tick, Tick, Tick>>
FenceBash == Fence \o <<"b","a","s","h">>
FenceSh == Fence \o <<"s","h">>

\* gemini_enhanced.py, lines 84-88: the command of an EXECUTE_COMMAND( line,
\* as a sequence of zero or one commands
ExplicitCall(line) ==
    LET p     == Find(line, ExecMarker)
        start == p + Len(ExecMarker)
        end   == RFind(line, ")")
    IN  IF start < end
        THEN <<StripSet(StripSet(Strip(SubSeq(line, start, end - 1)),
                                 {"\""}), {"'"})>>
        ELSE <<>>

\* gemini_enhanced.py, lines 80-98: one iteration of the loop over the lines;
\* st = [commands, in_command_block, current_command]
ParseLine(st, line) ==
    IF Find(line, ExecMarker) # 0
    THEN [st EXCEPT !.commands = @ \o ExplicitCall(line)]
    ELSE IF StartsWith(Strip(line), FenceBash) \/ StartsWith(Strip(line), FenceSh)
    THEN [st EXCEPT !.in_command_block = TRUE]
    ELSE IF Strip(line) = Fence /\ st.in_command_block
    THEN IF Strip(st.current_command) # <<>>
         THEN [commands         |-> Append(st.commands, Strip(st.current_command)),
               in_command_block |-> FALSE,
               current_command  |-> <<>>]
         ELSE [st EXCEPT !.in_command_block = FALSE]
    ELSE IF st.in_command_block
    THEN [st EXCEPT !.current_command = @ \o line \o <<NL>>]
    ELSE st

RECURSIVE ParseLines(_, _)
ParseLines(st, lines) ==
    IF Len(lines) = 0 THEN st
    ELSE ParseLines(ParseLine(st, Head(lines)), Tail(lines))

\* gemini_enhanced.py: parse_ai_response_for_commands(response_text)
parse_ai_response_for_commands(response_text) ==
    ParseLines([commands |-> <<>>, in_command_block |-> FALSE,
                current_command |-> <<>>],
               SplitLines(response_text)).commands

\* The length of the run of whitespace of s that starts at q
SpaceRun(s, q) ==
    LET stops == {i \in q..Len(s) + 1 : i = Len(s) + 1 \/ ~IsSpace(s[i])}
    IN  (CHOOSE i \in stops : \A j \in stops : i <= j) - q

FenceEnd == <<NL>> \o Fence

\* One attempt of the pattern  tag \s* \n (.*?) \n'''  (re.DOTALL, with '
\* for the backquote) at position p: \s* is greedy and gives back, (.*?) is lazy.  [ok, group, next]
MatchBlockAt(s, p, tag) ==
    LET q  == p + Len(tag)
        w  == SpaceRun(s, q)
        ks == {k \in 0..(w - 1) :
                 /\ s[q + k] = NL
                 /\ FindFrom(s, FenceEnd, q + k + 1) # 0}
    IN  IF ~MatchesAt(s, p, tag) \/ ks = {}
        THEN [ok |-> FALSE, group |-> <<>>, next |-> p + 1]
        ELSE LET k == CHOOSE x \in ks : \A y \in ks : y <= x
                 e == q + k + 1
                 m == FindFrom(s, FenceEnd, e)
             IN  [ok |-> TRUE, group |-> SubSeq(s, e, m - 1),
                  next |-> m + Len(FenceEnd)]

RECURSIVE FindAllBlocks(_, _, _)
\* re.findall(pattern, response_text, re.DOTALL): the groups of the
\* non-overlapping matches, scanning from the left
FindAllBlocks(s, p, tag) ==
    IF p > Len(s) THEN <<>>
    ELSE LET r == MatchBlockAt(s, p, tag)
         IN  IF r.ok THEN <<r.group>> \o FindAllBlocks(s, r.next, tag)
             ELSE FindAllBlocks(s, p + 1, tag)

\* gemini_fixed.py, lines 86-90 and 96-99: keep a match unless it is empty
\* or starts with '#'
KeepMatch(match) ==
    LET command == Strip(match)
    IN  IF command # <<>> /\ ~StartsWith(command, <<"#">>)
        THEN <<command>> ELSE <<>>

RECURSIVE CleanMatches(_)
CleanMatches(matches) ==
    IF Len(matches) = 0 THEN <<>>
    ELSE KeepMatch(Head(matches)) \o CleanMatches(Tail(matches))

\* gemini_fixed.py: extract_commands_from_response(response_text)
extract_commands_from_response(response_text) ==
    CleanMatches(FindAllBlocks(response_text, 1, FenceBash))
        \o CleanMatches(FindAllBlocks(response_text, 1, FenceSh))

\* ------------------------------------------------------------ the runner

\* What the subordinate process of subprocess.run can do
ProcBehaviours ==
    { [kind |-> "exit", code |-> 0, stdout |-> <<"o">>, stderr |-> <<>>],
      [kind |-> "exit", code |-> 2, stdout |-> <<>>, stderr |-> <<"e">>],
      [kind |-> "timeout", code |-> 0, stdout |-> <<>>, stderr |-> <<>>],
      [kind |-> "oserror", code |-> 0, stdout |-> <<>>, stderr |-> <<>>] }

\* Faulty variant of execute_command: no clause for TimeoutExpired, the
\* timeout is caught as any other exception
execute_commandNoTimeoutClause(b) ==
    IF b.kind = "exit"
    THEN [stdout |-> b.stdout, stderr |-> b.stderr,
          returncode |-> b.code, success |-> (b.code = 0)]
    ELSE [stdout |-> <<>>, stderr |-> <<"o","s","e","r","r","o","r">>,
          returncode |-> 1, success |-> FALSE]

\* execute_command(command): the dict returned for each behaviour
execute_command(b) ==
    IF b.kind = "exit"
    THEN [stdout |-> b.stdout, stderr |-> b.stderr,
          returncode |-> b.code, success |-> (b.code = 0)]
    ELSE IF b.kind = "timeout"
    THEN [stdout |-> <<>>, stderr |-> <<"t","i","m","e","d"," ","o","u","t">>,
          returncode |-> 124, success |-> FALSE]
    ELSE [stdout |-> <<>>, stderr |-> <<"o","s","e","r","r","o","r">>,
          returncode |-> 1, success |-> FALSE]

\* The lines printed for a result: the enhanced variant tests the raw text,
\* the fixed variant the stripped text
Display(v, res) ==
    IF res.success
    THEN <<"success">> \o
         (IF (IF v = "fixed" THEN Strip(res.stdout) ELSE res.stdout) # <<>>
          THEN <<"stdout">> ELSE <<>>)
    ELSE <<"failed">> \o
         (IF (IF v = "fixed" THEN Strip(res.stderr) ELSE res.stderr) # <<>>
          THEN <<"stderr">> ELSE <<>>)

\* ------------------------------------------------------- the session

\* conversation_history[-5:]
K == 5

\* Faulty variant of Window: the first K entries, conversation_history[:5]
WindowFirst(h) == SubSeq(h, 1, IF Len(h) > K THEN K ELSE Len(h))

Window(h) == SubSeq(h, IF Len(h) > K THEN Len(h) - K + 1 ELSE 1, Len(h))

Preamble(v) == [seg |-> "system", user |-> <<>>, assistant |-> <<>>, of |-> v]
Pair(e) == [seg |-> "pair", user |-> e.user, assistant |-> e.assistant, of |-> ""]
Pending(u) == [seg |-> "pending", user |-> u, assistant |-> <<>>, of |-> ""]
Raw(u) == [seg |-> "raw", user |-> u, assistant |-> <<>>, of |-> ""]

\* The prompt of an interactive turn, as the sequence of its parts
RenderInteractive(v, h, u) ==
    IF v = "enhanced"
    THEN <<Preamble(v)>> \o [i \in 1..Len(Window(h)) |-> Pair(Window(h)[i])]
             \o <<Pending(u)>>
    ELSE IF v = "fixed" THEN <<Preamble(v), Pending(u)>>
    ELSE <<Raw(u)>>

\* The prompt of the single prompt mode and of the piped mode
RenderOnce(v, u) ==
    IF v = "cli" THEN <<Raw(u)>> ELSE <<Preamble(v), Pending(u)>>

\* Faulty variant of HistoryAppend: the stored history is cut to K entries
HistoryAppendBounded(v, h, u, a) ==
    IF v = "enhanced" THEN Window(Append(h, [user |-> u, assistant |-> a])) ELSE h

\* Faulty variant of HistoryAppend: the two texts change places
HistoryAppendSwapped(v, h, u, a) ==
    IF v = "enhanced" THEN Append(h, [user |-> a, assistant |-> u]) ELSE h

\* conversation_history.append({'user': ..., 'assistant': ...}); only the
\* enhanced variant keeps a history
HistoryAppend(v, h, u, a) ==
    IF v = "enhanced" THEN Append(h, [user |-> u, assistant |-> a]) ELSE h

\* ------------------------------------------------------- the gate

\* Faulty variant of ExecutionEnabled: the flag is not looked at
ExecutionAlways(a) == TRUE

\* if args.execute:
ExecutionEnabled(a) == a.execute

\* Faulty variant of ConfirmEach: no confirmation is ever asked
ConfirmNever(a) == FALSE

\* Faulty variant of ConfirmEach: a confirmation is asked whatever the flag
ConfirmAlways(a) == TRUE

\* if args.safe_mode:
ConfirmEach(a) == a.safe_mode

\* The test on the answer: confirm != 'y' (enhanced),
\* confirm not in ['y', 'yes'] (fixed)
Affirmative(v, c) ==
    IF v = "enhanced" THEN c = <<"y">>
    ELSE c \in {<<"y">>, <<"y","e","s">>}

\* The extractor of each variant
Extract(v, text) ==
    IF v = "enhanced" THEN parse_ai_response_for_commands(text)
    ELSE extract_commands_from_response(text)

\* Faulty variant of InputKind: the keywords are compared as typed, without
\* lower()
InputKindAsTyped(u) ==
    IF u \in {<<"e","x","i","t">>, <<"q","u","i","t">>} THEN "exit"
    ELSE IF u = <<"c","l","e","a","r">> THEN "clear"
    ELSE IF u = <<>> THEN "empty"
    ELSE "prompt"

\* user_input.lower() in ['exit', 'quit'] / == 'clear' / not user_input
InputKind(u) ==
    IF Lower(u) \in {<<"e","x","i","t">>, <<"q","u","i","t">>} THEN "exit"
    ELSE IF Lower(u) = <<"c","l","e","a","r">> THEN "clear"
    ELSE IF u = <<>> THEN "empty"
    ELSE "prompt"

\* Faulty variant of ResolveKey: the text of the credential file is taken
\* as it is, without strip()
ResolveKeyUnstripped(flag, env, file) ==
    IF flag # <<>> THEN flag
    ELSE IF env # <<>> THEN env
    ELSE IF file = <<"missing">> THEN <<>>
    ELSE file

\* api_key = args.api_key or os.getenv(...), then the credential file
ResolveKey(flag, env, file) ==
    IF flag # <<>> THEN flag
    ELSE IF env # <<>> THEN env
    ELSE IF file = <<"missing">> THEN <<>>
    ELSE Strip(file)

\* ------------------------------------------------------- the inputs

\* The largest number of completed turns of one interactive session
MaxTurns == 7

Variants == {"enhanced", "fixed", "cli"}

Key == <<"k">>

\* What input() can return for the user's line
InputLines ==
    { <<" ","g","o"," ">>, <<>>, <<" ">>,
      <<"e","x","i","t">>, <<"Q","u","i","t"," ">>, <<"C","L","E","A","R">> }

\* What input() can return for a confirmation
Answers ==
    { <<"y">>, <<"Y">>, <<"y","e","s">>, <<"Y","E","S">>, <<"n">>, <<>>,
      <<" ","y">> }

RespPlain == <<"o","k">>

\* An explicit call and two fenced blocks
RespCmds ==
    ExecMarker \o <<"\"","a","\"",")",NL>>
        \o FenceBash \o <<NL,"b",NL>> \o Fence \o <<NL>>
        \o FenceSh \o <<NL,"c",NL>> \o Fence

\* What model.generate_content(...).text can return
Responses == {RespPlain, RespCmds}

\* args.prompt: the words of the positional argument
PromptWords == { <<>>, << <<"d","o">>, <<"i","t">> >> }

\* sys.stdin.read() of the piped mode
PipedTexts == { <<NL>>, <<"p",NL>> }

\* The argparse results of each variant; gemini_cli has neither --execute
\* nor --safe-mode
ArgsOf(v) ==
    { a \in [set_key : BOOLEAN, interactive : BOOLEAN, prompt : PromptWords,
             execute : BOOLEAN, safe_mode : BOOLEAN] :
        v = "cli" => (~a.execute /\ ~a.safe_mode) }

NoText == <<"None">>
NoResult == [stdout |-> <<>>, stderr |-> <<>>, returncode |-> 0, success |-> FALSE,
             unset |-> TRUE]

\* call: "input", "model", "confirm" or "process"; outcome: "returned",
\* "raised" or "interrupt"; value: what was returned
Came(call, outcome, value) == [call |-> call, outcome |-> outcome, value |-> value]

\* ------------------------------------------------------- the state

VARIABLES
    variant,        \* which script runs
    args,           \* the parsed command line
    mode,           \* the branch of main() that runs
    api_key,        \* the resolved credential
    pc,             \* the orchestrator's position
    exit_code,      \* the process's exit code, once pc = "Terminated"
    history,        \* conversation_history
    completed,      \* the number of turns that ran to their end
    user_input,     \* the text of the pending user turn
    full_prompt,    \* the prompt handed to the model
    response_text,  \* the model's answer
    commands,       \* the candidates of the turn
    idx,            \* the position of the loop over commands (1-based)
    confirm,        \* the last confirmation answer, lowered
    result,         \* the last result of execute_command
    output,         \* what the last step printed
    asked,          \* the candidates a confirmation was asked for, this turn
    ran,            \* the candidates handed to execute_command, this turn
    last            \* the call or lookup the last step came back from

config == <<variant, args, mode, api_key>>
turn == <<user_input, full_prompt, response_text, commands, idx, confirm,
          result, asked, ran>>
vars == <<variant, args, mode, api_key, pc, exit_code, history, completed,
          user_input, full_prompt, response_text, commands, idx, confirm,
          result, output, asked, ran, last>>

Init ==
    /\ variant \in Variants
    /\ args \in ArgsOf(variant)
    /\ mode = "none"
    /\ api_key = <<>>
    /\ pc = "Startup"
    /\ exit_code = 0
    /\ history = <<>>
    /\ completed = 0
    /\ user_input = NoText
    /\ full_prompt = <<>>
    /\ response_text = NoText
    /\ commands = <<>>
    /\ idx = 0
    /\ confirm = NoText
    /\ result = NoResult
    /\ output = <<>>
    /\ asked = <<>>
    /\ ran = <<>>
    /\ last = Came("none", "none", <<>>)

\* The locals of a turn, out of use once the loop goes round
ResetTurn ==
    /\ user_input' = NoText
    /\ full_prompt' = <<>>
    /\ response_text' = NoText
    /\ commands' = <<>>
    /\ idx' = 0
    /\ confirm' = NoText
    /\ result' = NoResult
    /\ asked' = <<>>
    /\ ran' = <<>>

\* sys.exit(code), or the end of main()
Exit(code, out) ==
    /\ pc' = "Terminated"
    /\ exit_code' = code
    /\ output' = out

\* ------------------------------------------------------- startup

\* main() up to the branch on the mode
Startup ==
    /\ pc = "Startup"
    /\ \E flag \in {<<>>, Key}, env \in {<<>>, Key},
          file \in {<<"missing">>, <<" ">>, Key \o <<NL>>},
          isatty \in BOOLEAN, piped \in PipedTexts :
         LET key   == ResolveKey(flag, env, file)
             found == Came("credentials", "returned",
                           [flag |-> flag, env |-> env, file |-> file])
             stdin == Came("isatty", "returned",
                           IF isatty THEN <<"tty">> ELSE <<"pipe">>)
         IN  IF args.set_key
             THEN /\ Exit(0, <<"key saved">>)
                  /\ last' = found
                  /\ UNCHANGED <<config, history, completed, turn>>
             ELSE IF key = <<>>
             THEN /\ Exit(1, <<"no api key">>)
                  /\ last' = found
                  /\ UNCHANGED <<config, history, completed, turn>>
             ELSE /\ api_key' = key
                  /\ IF args.interactive
                     THEN /\ mode' = "interactive"
                          /\ pc' = "AwaitingInput"
                          /\ output' = <<"banner">>
                          /\ UNCHANGED <<exit_code, turn, last>>
                     ELSE IF args.prompt # <<>>
                     THEN /\ mode' = "oneshot"
                          /\ pc' = "CallingModel"
                          /\ user_input' = Join(<<" ">>, args.prompt)
                          /\ full_prompt' = RenderOnce(variant, user_input')
                          /\ output' = <<>>
                          /\ UNCHANGED <<exit_code, response_text, commands,
                                         idx, confirm, result, asked, ran, last>>
                     ELSE IF variant # "fixed" /\ ~isatty
                     THEN /\ mode' = "piped"
                          /\ last' = stdin
                          /\ IF Strip(piped) # <<>>
                             THEN /\ pc' = "CallingModel"
                                  /\ user_input' = Strip(piped)
                                  /\ full_prompt' = RenderOnce(variant, user_input')
                                  /\ output' = <<>>
                                  /\ UNCHANGED <<exit_code, response_text,
                                                 commands, idx, confirm, result,
                                                 asked, ran>>
                             ELSE /\ Exit(0, <<>>)
                                  /\ UNCHANGED turn
                     ELSE /\ mode' = "help"
                          /\ last' = stdin
                          /\ Exit(0, <<"help">>)
                          /\ UNCHANGED turn
                  /\ UNCHANGED <<variant, args, history, completed>>

\* ------------------------------------------------------- a turn

\* The end of a turn whose model call returned: the interactive loop appends
\* the turn and goes round; the single prompt and piped modes end main().
\* conf, res, ask, rn: the values the locals have when the turn ends.
TurnDone(resp, cmds, conf, res, out, ask, rn) ==
    IF mode = "interactive"
    THEN /\ history' = HistoryAppend(variant, history, user_input, resp)
         /\ completed' = completed + 1
         /\ pc' = "AwaitingInput"
         /\ output' = out
         /\ ResetTurn
         /\ UNCHANGED exit_code
    ELSE /\ Exit(0, out)
         /\ response_text' = resp
         /\ commands' = cmds
         /\ idx' = Len(cmds)
         /\ confirm' = conf
         /\ result' = res
         /\ asked' = ask
         /\ ran' = rn
         /\ UNCHANGED <<history, completed, user_input, full_prompt>>

\* Faulty variant of AfterCandidate: a failed command ends the loop over the
\* commands, and the turn with it
AfterCandidateAborting(conf, res, out, ask, rn) ==
    IF idx < Len(commands) /\ (res = NoResult \/ res.success)
    THEN /\ pc' = "Gating"
         /\ idx' = idx + 1
         /\ confirm' = conf
         /\ result' = res
         /\ output' = out
         /\ asked' = ask
         /\ ran' = rn
         /\ UNCHANGED <<exit_code, history, completed, user_input, full_prompt,
                        response_text, commands>>
    ELSE IF res = NoResult \/ res.success
    THEN TurnDone(response_text, commands, conf, res, out, ask, rn)
    ELSE IF mode = "interactive"
    THEN /\ pc' = "AwaitingInput"
         /\ output' = out
         /\ ResetTurn
         /\ UNCHANGED <<exit_code, history, completed>>
    ELSE /\ Exit(1, out)
         /\ confirm' = conf
         /\ result' = res
         /\ asked' = ask
         /\ ran' = rn
         /\ UNCHANGED <<history, completed, user_input, full_prompt,
                        response_text, commands, idx>>

\* The loop over commands goes on to the next candidate, or ends
AfterCandidate(conf, res, out, ask, rn) ==
    IF idx < Len(commands)
    THEN /\ pc' = "Gating"
         /\ idx' = idx + 1
         /\ confirm' = conf
         /\ result' = res
         /\ output' = out
         /\ asked' = ask
         /\ ran' = rn
         /\ UNCHANGED <<exit_code, history, completed, user_input, full_prompt,
                        response_text, commands>>
    ELSE TurnDone(response_text, commands, conf, res, out, ask, rn)

\* Faulty variant of Caught: an error in the loop over the commands is
\* caught inside that loop, which goes on to the next candidate
CaughtInsideLoop ==
    IF mode = "interactive" /\ pc \in {"Gating", "Executing"}
    THEN AfterCandidate(confirm, result, <<"error">>, asked, ran)
    ELSE IF mode = "interactive"
    THEN /\ pc' = "AwaitingInput"
         /\ output' = <<"error">>
         /\ ResetTurn
         /\ UNCHANGED <<exit_code, history, completed>>
    ELSE /\ Exit(1, <<"error">>)
         /\ UNCHANGED <<history, completed, turn>>

\* Faulty variant of Caught: the interactive loop, too, ends the process on
\* an error
CaughtEndsLoop ==
    /\ Exit(1, <<"error">>)
    /\ UNCHANGED <<history, completed, turn>>

\* Faulty variant of Caught: the interactive loop remembers the failed turn
CaughtRemembers ==
    IF mode = "interactive"
    THEN /\ pc' = "AwaitingInput"
         /\ output' = <<"error">>
         /\ ResetTurn
         /\ history' = HistoryAppend(variant, history, user_input, <<>>)
         /\ UNCHANGED <<exit_code, completed>>
    ELSE /\ Exit(1, <<"error">>)
         /\ UNCHANGED <<history, completed, turn>>

\* Faulty variant of Caught: the error is printed and main() ends normally
CaughtExitsZero ==
    IF mode = "interactive"
    THEN /\ pc' = "AwaitingInput"
         /\ output' = <<"error">>
         /\ ResetTurn
         /\ UNCHANGED <<exit_code, history, completed>>
    ELSE /\ Exit(0, <<"error">>)
         /\ UNCHANGED <<history, completed, turn>>

\* except Exception: the interactive loop prints the error and goes round,
\* the other modes exit with code 1
Caught ==
    IF mode = "interactive"
    THEN /\ pc' = "AwaitingInput"
         /\ output' = <<"error">>
         /\ ResetTurn
         /\ UNCHANGED <<exit_code, history, completed>>
    ELSE /\ Exit(1, <<"error">>)
         /\ UNCHANGED <<history, completed, turn>>

\* Faulty variant of Interrupted: the pending turn is put into the history
\* before the run ends
InterruptedSavesTurn ==
    /\ IF mode = "interactive"
       THEN Exit(0, <<"goodbye">>)
       ELSE Exit(130, <<"traceback">>)
    /\ history' = Append(history, [user |-> user_input,
                                   assistant |-> response_text])
    /\ UNCHANGED <<completed, turn>>

\* Faulty variant of Interrupted: the interactive loop reports the
\* interrupt and goes round
InterruptedSwallowed ==
    /\ IF mode = "interactive"
       THEN /\ pc' = "AwaitingInput"
            /\ output' = <<"goodbye">>
            /\ UNCHANGED exit_code
       ELSE Exit(130, <<"traceback">>)
    /\ UNCHANGED <<history, completed, turn>>

\* KeyboardInterrupt: the interactive loop says goodbye and breaks; elsewhere
\* nothing catches it and the interpreter ends the process
Interrupted ==
    /\ IF mode = "interactive"
       THEN Exit(0, <<"goodbye">>)
       ELSE Exit(130, <<"traceback">>)
    /\ UNCHANGED <<history, completed, turn>>

\* input() returns a line that is the exit keyword
ReadExit ==
    /\ pc = "AwaitingInput"
    /\ \E line \in InputLines :
         /\ InputKind(Strip(line)) = "exit"
         /\ Exit(0, <<>>)
         /\ last' = Came("input", "returned", line)
    /\ UNCHANGED <<config, history, completed, turn>>

\* input() returns 'clear' or an empty line: continue
ReadNoOp ==
    /\ pc = "AwaitingInput"
    /\ \E line \in InputLines :
         /\ InputKind(Strip(line)) \in {"clear", "empty"}
         /\ output' = IF InputKind(Strip(line)) = "clear"
                      THEN <<"clear">> ELSE <<>>
         /\ last' = Came("input", "returned", line)
    /\ UNCHANGED <<config, pc, exit_code, history, completed, turn>>

\* Faulty variant of ReadPrompt: from the second turn on the prompt carries
\* a part that tells the model of the earlier turns
ReadPromptTellsEarlier ==
    /\ pc = "AwaitingInput"
    /\ completed < MaxTurns
    /\ \E line \in InputLines :
         /\ InputKind(Strip(line)) = "prompt"
         /\ user_input' = Strip(line)
         /\ full_prompt' = RenderInteractive(variant, history, Strip(line))
                            \o (IF completed > 0
                                THEN <<Raw(<<"m","o","r","e">>)>> ELSE <<>>)
         /\ last' = Came("input", "returned", line)
    /\ pc' = "CallingModel"
    /\ output' = <<"thinking">>
    /\ UNCHANGED <<config, exit_code, history, completed, response_text,
                   commands, idx, confirm, result, asked, ran>>

\* input() returns a prompt: the prompt of the turn is built
ReadPrompt ==
    /\ pc = "AwaitingInput"
    /\ completed < MaxTurns
    /\ \E line \in InputLines :
         /\ InputKind(Strip(line)) = "prompt"
         /\ user_input' = Strip(line)
         /\ full_prompt' = RenderInteractive(variant, history, Strip(line))
         /\ last' = Came("input", "returned", line)
    /\ pc' = "CallingModel"
    /\ output' = <<"thinking">>
    /\ UNCHANGED <<config, exit_code, history, completed, response_text,
                   commands, idx, confirm, result, asked, ran>>

\* input() raises (end of input)
ReadFails ==
    /\ pc = "AwaitingInput"
    /\ Caught
    /\ last' = Came("input", "raised", <<>>)
    /\ UNCHANGED config

\* Ctrl-C at the input prompt
ReadInterrupted ==
    /\ pc = "AwaitingInput"
    /\ Interrupted
    /\ last' = Came("input", "interrupt", <<>>)
    /\ UNCHANGED config

\* Faulty variant of ModelReturns: the piped mode, too, extracts the
\* candidates under --execute and enters the loop over them
ModelReturnsExtractsPiped ==
    /\ pc = "CallingModel"
    /\ \E r \in Responses :
         /\ last' = Came("model", "returned", r)
         /\ LET cmds == IF variant # "cli" /\ ExecutionEnabled(args)
                     THEN Extract(variant, r) ELSE <<>>
            IN  IF cmds # <<>>
                THEN /\ response_text' = r
                     /\ commands' = cmds
                     /\ idx' = 1
                     /\ pc' = "Gating"
                     /\ output' = <<"response">>
                     /\ UNCHANGED <<exit_code, history, completed, user_input,
                                    full_prompt, confirm, result, asked, ran>>
                ELSE TurnDone(r, cmds, confirm, result, <<"response">>,
                              asked, ran)
    /\ UNCHANGED config

\* model.generate_content(...) returns and response.text is printed; with
\* --execute the candidates are extracted and the loop over them starts
ModelReturns ==
    /\ pc = "CallingModel"
    /\ \E r \in Responses :
         /\ last' = Came("model", "returned", r)
         /\ LET cmds == IF mode # "piped" /\ variant # "cli" /\ ExecutionEnabled(args)
                     THEN Extract(variant, r) ELSE <<>>
            IN  IF cmds # <<>>
                THEN /\ response_text' = r
                     /\ commands' = cmds
                     /\ idx' = 1
                     /\ pc' = "Gating"
                     /\ output' = <<"response">>
                     /\ UNCHANGED <<exit_code, history, completed, user_input,
                                    full_prompt, confirm, result, asked, ran>>
                ELSE TurnDone(r, cmds, confirm, result, <<"response">>,
                              asked, ran)
    /\ UNCHANGED config

\* model.generate_content(...) raises
ModelFails ==
    /\ pc = "CallingModel"
    /\ Caught
    /\ last' = Came("model", "raised", <<>>)
    /\ UNCHANGED config

\* Ctrl-C during the model call
ModelInterrupted ==
    /\ pc = "CallingModel"
    /\ Interrupted
    /\ last' = Came("model", "interrupt", <<>>)
    /\ UNCHANGED config

\* The candidate at position i of the loop
Call(i) == [i |-> i, command |-> commands[i]]

\* The decision on commands[idx]: with --safe-mode the answer is read and
\* tested, without it the candidate is run
Gate ==
    /\ pc = "Gating"
    /\ \E answer \in (IF ConfirmEach(args) THEN Answers ELSE {<<>>}) :
         LET asks == ConfirmEach(args)
             conf == IF asks THEN Lower(answer) ELSE confirm
             ask  == IF asks THEN Append(asked, Call(idx)) ELSE asked
         IN  /\ last' = IF asks THEN Came("confirm", "returned", answer) ELSE last
             /\ IF asks /\ ~Affirmative(variant, conf)
                THEN AfterCandidate(conf, result,
                                    IF variant = "fixed" /\ mode = "interactive"
                                    THEN <<"skipped">> ELSE <<>>,
                                    ask, ran)
                ELSE /\ pc' = "Executing"
                     /\ confirm' = conf
                     /\ asked' = ask
                     /\ ran' = Append(ran, Call(idx))
                     /\ output' = <<"executing">>
                     /\ UNCHANGED <<exit_code, history, completed, user_input,
                                    full_prompt, response_text, commands, idx,
                                    result>>
    /\ UNCHANGED config

\* input() of the confirmation raises
GateReadFails ==
    /\ pc = "Gating"
    /\ ConfirmEach(args)
    /\ Caught
    /\ last' = Came("confirm", "raised", <<>>)
    /\ UNCHANGED config

\* Ctrl-C at the confirmation prompt
GateInterrupted ==
    /\ pc = "Gating"
    /\ ConfirmEach(args)
    /\ Interrupted
    /\ last' = Came("confirm", "interrupt", <<>>)
    /\ UNCHANGED config

\* execute_command(command) returns and the result is displayed
ExecuteReturns ==
    /\ pc = "Executing"
    /\ \E b \in ProcBehaviours :
         /\ last' = Came("process", "returned", b)
         /\ AfterCandidate(confirm, execute_command(b),
                           Display(variant, execute_command(b)), asked, ran)
    /\ UNCHANGED config

\* Ctrl-C while the command runs: subprocess.run re-raises it
ExecuteInterrupted ==
    /\ pc = "Executing"
    /\ Interrupted
    /\ last' = Came("process", "interrupt", <<>>)
    /\ UNCHANGED config

Next ==
    \/ Startup
    \/ ReadExit
    \/ ReadNoOp
    \/ ReadPrompt
    \/ ReadFails
    \/ ReadInterrupted
    \/ ModelReturns
    \/ ModelFails
    \/ ModelInterrupted
    \/ Gate
    \/ GateReadFails
    \/ GateInterrupted
    \/ ExecuteReturns
    \/ ExecuteInterrupted

Spec == Init /\ [][Next]_vars

\* ------------------------------------------------------- the properties

Last(s) == s[Len(s)]

Min(a, b) == IF a < b THEN a ELSE b

IsPrefix(a, b) == Len(a) <= Len(b) /\ SubSeq(b, 1, Len(a)) = a

\* The affirmative tokens of the specification, after lowering
YesTokens == {<<"y">>, <<"y","e","s">>}

\* The positions of the candidates recorded in a sequence of calls
Positions(calls) == {calls[j].i : j \in 1..Len(calls)}

ModelRaised == Came("model", "raised", <<>>)

\* C1: with --execute not set (with or without --safe-mode), in every mode
\* and after any sequence of turns, no candidate is ever gated, no
\* confirmation is asked and execute_command is never called.
C1_DisabledNeverRuns ==
    ~args.execute =>
        /\ pc \notin {"Gating", "Executing"}
        /\ ran = <<>>
        /\ asked = <<>>
        /\ last.call \notin {"confirm", "process"}

\* Several turns of a session without --execute, one of whose responses holds
\* candidates
C1_Witness ==
    /\ ~args.execute
    /\ args.safe_mode
    /\ mode = "interactive"
    /\ Len(history) >= 2
    /\ \E i \in 1..Len(history) : Extract(variant, history[i].assistant) # <<>>

\* C2: every call of execute_command is for the candidate the gate has just
\* decided to run; with --safe-mode an affirmative answer was read for that
\* very candidate immediately before, and every candidate run in the turn is
\* one a confirmation was asked for.
C2_GateChokepoint ==
    /\ ran # <<>> => args.execute
    /\ pc = "Executing" =>
         /\ ran # <<>>
         /\ Last(ran) = [i |-> idx, command |-> commands[idx]]
         /\ args.safe_mode =>
              /\ asked # <<>>
              /\ Last(asked) = Last(ran)
              /\ last.call = "confirm"
              /\ last.outcome = "returned"
              /\ Lower(last.value) \in YesTokens
              /\ confirm = Lower(last.value)
    /\ args.safe_mode => \A j \in 1..Len(ran) : \E k \in 1..Len(asked) : asked[k] = ran[j]

\* A candidate is run under --safe-mode after an earlier one of the same turn
\* was refused
C2_Witness ==
    /\ pc = "Executing"
    /\ args.safe_mode
    /\ Len(asked) > Len(ran)

\* C3: with --execute --safe-mode the candidate is run if and only if the
\* answer, lowered, is 'y' or 'yes'.  (gemini_enhanced tests confirm != 'y'
\* and so refuses 'yes'.)
C3_YesTokensDecide ==
    (last.call = "confirm" /\ last.outcome = "returned") =>
        ((pc = "Executing") <=> (Lower(last.value) \in YesTokens))

\* C4: the prompt of an interactive turn of gemini_enhanced after N completed
\* turns is the preamble, the min(N, K) most recent pairs of the history,
\* oldest first, and the pending user turn; it never holds more than K pairs.
C4_Windowing ==
    (variant = "enhanced" /\ mode = "interactive" /\ pc = "CallingModel") =>
        LET N == completed
            n == Min(N, K)
        IN  /\ Len(full_prompt) = n + 2
            /\ full_prompt[1].seg = "system"
            /\ \A i \in 1..n :
                 /\ full_prompt[i + 1].seg = "pair"
                 /\ full_prompt[i + 1].user = history[N - n + i].user
                 /\ full_prompt[i + 1].assistant = history[N - n + i].assistant
            /\ full_prompt[n + 2].seg = "pending"
            /\ full_prompt[n + 2].user = user_input
            /\ Cardinality({i \in 1..Len(full_prompt) :
                              full_prompt[i].seg = "pair"}) <= K

\* A prompt rendered after more than K turns, the oldest of which differs
\* from the oldest one rendered
C4_Witness ==
    /\ variant = "enhanced"
    /\ pc = "CallingModel"
    /\ completed > K
    /\ history[1] # history[completed - K + 1]

\* C5: across every step the old history is a prefix of the new one, and the
\* step that renders a prompt leaves the history as it is.
C5_AppendOnly ==
    [][ /\ IsPrefix(history, history')
        /\ pc' = "CallingModel" => history' = history ]_vars

\* A windowed prompt has been rendered and the history holds more than K pairs
C5_Witness ==
    /\ variant = "enhanced"
    /\ pc = "CallingModel"
    /\ Len(history) > K
    /\ Len(full_prompt) = K + 2

\* C6: in the interactive loop, when the model call raises, the error is
\* printed, no candidate is extracted, gated or run, the history is what it
\* was and the loop waits for the next input.
C6_RemoteErrorInteractive ==
    [][ (mode = "interactive" /\ pc = "CallingModel" /\ last' = ModelRaised) =>
            /\ output' = <<"error">>
            /\ pc' = "AwaitingInput"
            /\ history' = history
            /\ completed' = completed
            /\ commands' = <<>>
            /\ asked' = <<>>
            /\ ran' = <<>> ]_vars

\* The model call of a later turn of a session with --execute has failed
C6_Witness ==
    /\ mode = "interactive"
    /\ pc = "AwaitingInput"
    /\ last = ModelRaised
    /\ args.execute
    /\ Len(history) >= 1

\* C7: in the single prompt mode, when the model call raises, the process
\* exits with code 1, nothing is appended to a history and no candidate is
\* gated or run.
C7_RemoteErrorOneShot ==
    (mode = "oneshot" /\ last = ModelRaised) =>
        /\ pc = "Terminated"
        /\ exit_code = 1
        /\ history = <<>>
        /\ completed = 0
        /\ commands = <<>>
        /\ asked = <<>>
        /\ ran = <<>>

C7_Witness ==
    /\ mode = "oneshot"
    /\ last = ModelRaised
    /\ args.execute
    /\ pc = "Terminated"

\* The step ends a turn: the model call returned and there is no candidate
\* left to handle
TurnEnds ==
    \/ /\ pc = "CallingModel"
       /\ last'.call = "model" /\ last'.outcome = "returned"
       /\ (~args.execute \/ Extract(variant, last'.value) = <<>>)
    \/ /\ pc = "Gating"
       /\ idx = Len(commands)
       /\ last'.call = "confirm" /\ last'.outcome = "returned"
       /\ pc' # "Executing"
    \/ /\ pc = "Executing"
       /\ idx = Len(commands)
       /\ last'.call = "process" /\ last'.outcome = "returned"

\* C8: in the interactive loop of gemini_enhanced a step that ends a turn
\* appends exactly the pair (user text, assistant text) of that turn and goes
\* to wait for the next input; no other step changes the history; so the
\* history holds as many pairs as turns have completed.
C8_TurnAppended ==
    /\ []((variant = "enhanced" /\ mode = "interactive") =>
              Len(history) = completed)
    /\ [][ (variant = "enhanced" /\ mode = "interactive") =>
             IF TurnEnds
             THEN /\ history' = history \o
                        <<[user |-> user_input,
                           assistant |-> IF pc = "CallingModel"
                                         THEN last'.value ELSE response_text]>>
                  /\ completed' = completed + 1
                  /\ pc' = "AwaitingInput"
             ELSE /\ history' = history
                  /\ completed' = completed ]_vars

\* A turn whose last candidate was run has been appended
C8_Witness ==
    /\ variant = "enhanced"
    /\ mode = "interactive"
    /\ pc = "AwaitingInput"
    /\ completed >= 2
    /\ last.call = "process"
    /\ Last(history).assistant = RespCmds

\* C9: the candidates are handled one after another in the order of
\* extraction; the one being run is the current one and every earlier one
\* that ran has returned and been displayed before the next is gated; with
\* --execute and no --safe-mode every extracted candidate is run and no
\* confirmation is asked.
C9_Sequential ==
    /\ \A j \in 1..Len(ran) :
         /\ ran[j].i \in 1..Len(commands)
         /\ ran[j].i <= idx
         /\ ran[j].command = commands[ran[j].i]
         /\ j > 1 => ran[j - 1].i < ran[j].i
    /\ \A j \in 1..Len(asked) :
         /\ asked[j].i = j
         /\ asked[j].i <= idx
    /\ pc \in {"Gating", "Executing"} =>
         commands = Extract(variant, response_text)
    /\ pc = "Executing" => Last(ran).i = idx
    /\ pc = "Gating" =>
         /\ idx \notin Positions(ran)
         /\ idx \notin Positions(asked)
         /\ (idx - 1) \in Positions(ran) =>
              /\ last.call = "process"
              /\ last.outcome = "returned"
              /\ result # NoResult
              /\ result.returncode = execute_command(last.value).returncode
              /\ output[1] = IF result.success THEN "success" ELSE "failed"
    /\ (args.execute /\ ~args.safe_mode) =>
         /\ asked = <<>>
         /\ pc = "Gating" => Positions(ran) = 1..(idx - 1)
         /\ pc = "Executing" => Positions(ran) = 1..idx
         /\ (pc = "Terminated" /\ mode = "oneshot" /\ last.outcome = "returned") =>
              /\ commands = Extract(variant, response_text)
              /\ Positions(ran) = 1..Len(commands)

\* The third candidate of a turn is running under --execute without
\* --safe-mode
C9_Witness ==
    /\ args.execute
    /\ ~args.safe_mode
    /\ pc = "Executing"
    /\ idx = 3

\* The process behaviours that count as an execution failure
Failure(b) == b.kind # "exit" \/ b.code # 0

\* C10: when a command fails (non-zero exit, timeout, launch failure) the
\* loop goes on to the next candidate; after the last candidate the
\* interactive turn is completed (and appended by gemini_enhanced) and the
\* loop waits for input, the single prompt mode ends normally.
C10_FailureDoesNotAbort ==
    [][ (/\ pc = "Executing"
         /\ last'.call = "process"
         /\ last'.outcome = "returned"
         /\ Failure(last'.value)) =>
            IF idx < Len(commands)
            THEN /\ pc' = "Gating"
                 /\ idx' = idx + 1
                 /\ commands' = commands
                 /\ history' = history
            ELSE IF mode = "interactive"
            THEN /\ pc' = "AwaitingInput"
                 /\ completed' = completed + 1
                 /\ variant = "enhanced" =>
                      history' = Append(history, [user |-> user_input,
                                                  assistant |-> response_text])
            ELSE /\ pc' = "Terminated"
                 /\ exit_code' = 0 ]_vars

\* A candidate is running although the one before it was run and failed
C10_Witness ==
    /\ pc = "Executing"
    /\ Len(ran) >= 2
    /\ ran[Len(ran) - 1].i = idx - 1
    /\ result # NoResult
    /\ ~result.success

\* The mode the stated priority selects: prompt argument, then interactive
\* loop, then piped input, then help
PriorityMode(prompt, interactive, stdin) ==
    IF prompt # <<>> THEN "oneshot"
    ELSE IF interactive THEN "interactive"
    ELSE IF stdin = <<"pipe">> THEN "piped"
    ELSE "help"

\* C11: mode selection follows the priority explicit prompt argument >
\* interactive loop > piped input > help text: for every combination of
\* prompt words, --interactive and stdin being a pipe, the mode that runs
\* is the highest-priority one whose condition holds; with both a prompt
\* argument and --interactive the single prompt mode runs.
C11_ModePriority ==
    /\ (mode # "none" /\ (args.prompt # <<>> \/ args.interactive)) =>
         mode = PriorityMode(args.prompt, args.interactive, <<>>)
    /\ (mode # "none" /\ last.call = "isatty") =>
         mode = PriorityMode(args.prompt, args.interactive, last.value)

\* ------------------------------------------- the extraction on its own

\* The largest number of pieces of a response text
MaxPieces == 3

\* EXECUTE_COMMAND("b")
CallB == ExecMarker \o <<"\"","b","\"",")">>

\* EXECUTE_COMMAND("")
CallEmpty == ExecMarker \o <<"\"","\"",")">>

\* EXECUTE_COMMAND("'b'")
CallNested == ExecMarker \o <<"\"","'","b","'","\"",")">>

\* A bash block holding the line a, an sh block holding the line s
BlockBash == FenceBash \o <<NL,"a",NL>> \o Fence
BlockSh == FenceSh \o <<NL,"s",NL>> \o Fence

\* The pieces a response text is made of: fence lines, a command line, a
\* comment line, explicit calls, whole blocks
Pieces ==
    {FenceBash, FenceSh, Fence, <<"a">>, <<"#","c">>,
     CallB, CallEmpty, CallNested, BlockBash, BlockSh}

\* response.text: up to MaxPieces pieces, one after the other on lines of
\* their own
Texts ==
    {Join(<<NL>>, ps) : ps \in UNION {[1..n -> Pieces] : n \in 1..MaxPieces}}

\* A response has arrived and --execute is set
InitExtract ==
    /\ variant \in {"enhanced", "fixed"}
    /\ args = [set_key |-> FALSE, interactive |-> FALSE,
               prompt |-> << <<"d","o">> >>, execute |-> TRUE,
               safe_mode |-> FALSE]
    /\ mode = "oneshot"
    /\ api_key = Key
    /\ pc = "Extracting"
    /\ exit_code = 0
    /\ history = <<>>
    /\ completed = 0
    /\ user_input = <<"d","o">>
    /\ full_prompt = RenderOnce(variant, user_input)
    /\ response_text \in Texts
    /\ commands = <<>>
    /\ idx = 0
    /\ confirm = NoText
    /\ result = NoResult
    /\ output = <<>>
    /\ asked = <<>>
    /\ ran = <<>>
    /\ last = Came("model", "returned", response_text)

\* commands = parse_ai_response_for_commands(response_text), or
\* commands = extract_commands_from_response(response_text)
ExtractCommands ==
    /\ pc = "Extracting"
    /\ commands' = Extract(variant, response_text)
    /\ pc' = "Extracted"
    /\ UNCHANGED <<config, exit_code, history, completed, user_input,
                   full_prompt, response_text, idx, confirm, result, output,
                   asked, ran, last>>

NextExtract == ExtractCommands

SpecExtract == InitExtract /\ [][NextExtract]_vars

\* ------------------------------------------- the claims on the extraction

\* The lines of the response
Lines == SplitLines(response_text)

\* A start marker with the tag bash or sh, the end marker, an explicit call
IsStart(l) == l \in {FenceBash, FenceSh}
IsEnd(l) == l = Fence
IsFenceLine(l) == IsStart(l) \/ IsEnd(l)
IsCallLine(l) == Find(l, ExecMarker) # 0
IsComment(l) == StartsWith(Strip(l), <<"#">>)

\* Line i is a start marker and line j the end marker of its own: no marker
\* stands between them
Closed(ls, i, j) ==
    /\ i < j
    /\ IsStart(ls[i])
    /\ IsEnd(ls[j])
    /\ \A k \in (i + 1)..(j - 1) : ~IsFenceLine(ls[k])

\* The terminated fenced blocks: start marker, one or more lines, end marker
Blocks(ls) ==
    {b \in (1..Len(ls)) \X (1..Len(ls)) : b[1] + 1 < b[2] /\ Closed(ls, b[1], b[2])}

\* The full trimmed text of the region of a block
BlockText(ls, b) == Strip(Join(<<NL>>, SubSeq(ls, b[1] + 1, b[2] - 1)))

\* The lines inside the terminated blocks
Inside(ls) == UNION {(b[1] + 1)..(b[2] - 1) : b \in Blocks(ls)}

\* Every fence line opens or closes a terminated block, and the blocks hold
\* neither comment lines nor explicit calls
PlainBlocksOnly(ls) ==
    /\ \A i \in 1..Len(ls) :
         IsFenceLine(ls[i]) => \E b \in Blocks(ls) : i \in {b[1], b[2]}
    /\ \A k \in Inside(ls) : ~IsComment(ls[k]) /\ ~IsCallLine(ls[k])

\* The candidate of the marker on line i: the text of the block that starts
\* there, or the command of the explicit call there (gemini_fixed has the
\* fenced grammar only)
CandidateAt(v, ls, i) ==
    IF \E b \in Blocks(ls) : b[1] = i
    THEN <<BlockText(ls, CHOOSE b \in Blocks(ls) : b[1] = i)>>
    ELSE IF v = "enhanced" /\ IsCallLine(ls[i]) /\ i \notin Inside(ls)
    THEN ExplicitCall(ls[i])
    ELSE <<>>

RECURSIVE InOrderOfAppearance(_, _, _)
\* The candidates of the markers from line i on, in the order of the lines
InOrderOfAppearance(v, ls, i) ==
    IF i > Len(ls) THEN <<>>
    ELSE CandidateAt(v, ls, i) \o InOrderOfAppearance(v, ls, i + 1)

\* C12: the extractor returns the candidates in their order of appearance
\* in the text, across both grammars and both fence tags, duplicates kept:
\* the candidate of a marker that starts earlier comes earlier, and a
\* command occurring n times yields n candidates.  Stated for the texts
\* whose fences are all terminated blocks of plain lines.
C12_OrderOfAppearance ==
    (pc = "Extracted" /\ PlainBlocksOnly(Lines)) =>
        commands = InOrderOfAppearance(variant, Lines, 1)

\* Line i is a start marker with no end marker of its own
Unterminated(ls, i) ==
    /\ IsStart(ls[i])
    /\ ~\E j \in 1..Len(ls) : Closed(ls, i, j)

\* The lines that follow the start marker on line i, up to the next marker
Following(ls, i) ==
    {k \in (i + 1)..Len(ls) : \A m \in (i + 1)..k : ~IsFenceLine(ls[m])}

\* The lines of the candidates
CandidateLines(cs) ==
    UNION {{Strip(SplitLines(cs[n])[m]) : m \in 1..Len(SplitLines(cs[n]))} :
             n \in 1..Len(cs)}

\* C13: an unterminated fenced block never contributes to a candidate: the
\* lines that follow a start marker with no end marker of its own appear in
\* no returned candidate, neither alone nor merged into the candidate of a
\* later block.  Stated for the lines whose text stands nowhere else in
\* the response.
C13_UnterminatedYieldsNothing ==
    pc = "Extracted" =>
        \A i \in 1..Len(Lines) : Unterminated(Lines, i) =>
            \A k \in Following(Lines, i) :
                (/\ Strip(Lines[k]) # <<>>
                 /\ \A m \in 1..Len(Lines) : m # k => Lines[m] # Lines[k]) =>
                    Strip(Lines[k]) \notin CandidateLines(commands)

\* C18: the extractor never returns an empty candidate: every element of
\* the returned sequence is non-empty after trimming.
C18_NoEmptyCandidate ==
    pc = "Extracted" =>
        \A n \in 1..Len(commands) : Strip(commands[n]) # <<>>

Quotes == {"'", "\""}

\* s with at most one quote character taken from each end
StripOneQuote(s) ==
    LET t == IF Len(s) > 0 /\ s[1] \in Quotes THEN Tail(s) ELSE s
    IN  IF Len(t) > 0 /\ t[Len(t)] \in Quotes THEN SubSeq(t, 1, Len(t) - 1)
        ELSE t

\* The candidate the explicit call grammar is said to give for a line: none
\* unless the opening parenthesis of the marker stands before the last ')',
\* else the text between the two, trimmed, one quote taken from each end
StatedCall(line) ==
    LET open  == Find(line, ExecMarker) + Len(ExecMarker) - 1
        close == RFind(line, ")")
    IN  IF IsCallLine(line) /\ open < close
        THEN <<StripOneQuote(Strip(SubSeq(line, open + 1, close - 1)))>>
        ELSE <<>>

RECURSIVE StatedCalls(_)
StatedCalls(ls) ==
    IF Len(ls) = 0 THEN <<>>
    ELSE StatedCall(Head(ls)) \o StatedCalls(Tail(ls))

\* C19: explicit call grammar: a line with the marker EXECUTE_COMMAND(
\* yields a candidate only if the opening parenthesis stands before the
\* last ')' of the line, a line that does not is skipped without effect on
\* the other lines; the candidate is the text between the two, trimmed,
\* with at most one surrounding quote character taken from each end.
\* Stated for the texts without fence lines.
C19_ExplicitCall ==
    (/\ pc = "Extracted"
     /\ variant = "enhanced"
     /\ \A i \in 1..Len(Lines) : ~IsFenceLine(Lines[i])) =>
        commands = StatedCalls(Lines)

\* The number of positions of cs that hold c
Count(cs, c) == Cardinality({n \in 1..Len(cs) : cs[n] = c})

\* C20: fenced block grammar: every terminated fenced block (start marker
\* with tag bash or sh, one or more lines, end marker) yields exactly one
\* candidate, the full trimmed text of the region with all of its lines,
\* whatever they hold.  Stated for the texts whose fence lines all belong
\* to terminated blocks and whose blocks hold no comment line: a text is
\* returned once for each block that holds it (and once for each explicit
\* call outside the blocks that gives it).
C20_FencedBlock ==
    (/\ pc = "Extracted"
     /\ \A i \in 1..Len(Lines) :
          IsFenceLine(Lines[i]) => \E b \in Blocks(Lines) : i \in {b[1], b[2]}
     /\ \A k \in Inside(Lines) : ~IsComment(Lines[k])) =>
        \A b \in Blocks(Lines) :
            LET text == BlockText(Lines, b)
            IN  Count(commands, text) =
                    Cardinality({c \in Blocks(Lines) : BlockText(Lines, c) = text})
                    + Cardinality({k \in (1..Len(Lines)) \ Inside(Lines) :
                                     /\ variant = "enhanced"
                                     /\ IsCallLine(Lines[k])
                                     /\ ExplicitCall(Lines[k]) = <<text>>})

\* ------------------------------------------- the claims on the session (2)

ModelCalled == last.call \in {"model", "confirm", "process"}

\* How far the single cycle of the single prompt and piped modes has come
Rank == idx + idx + (IF pc = "Executing" THEN 1 ELSE 0)

ExitWords == {<<"e","x","i","t">>, <<"q","u","i","t">>}

\* The single prompt and piped modes make one model call and end
OneCycle ==
    /\ [][ (mode' \in {"oneshot", "piped"} /\ pc' = "CallingModel") =>
                pc = "Startup" ]_vars
    /\ [][ (mode \in {"oneshot", "piped"}) =>
                (\/ pc' = "Terminated"
                 \/ /\ last'.outcome = "returned"
                    /\ Rank' > Rank
                    /\ idx' <= Len(commands')
                    /\ (pc \in {"Gating", "Executing"} => commands' = commands))
          ]_vars
    /\ []((mode \in {"oneshot", "piped"} /\ pc # "Terminated") => ENABLED Next)

\* The exit keyword and the interrupt end the interactive loop, and nothing
\* happens once the run has ended
ExitsAndStays ==
    /\ [][ (/\ mode = "interactive"
             /\ pc = "AwaitingInput"
             /\ last'.call = "input"
             /\ last'.outcome = "returned"
             /\ Lower(Strip(last'.value)) \in ExitWords) =>
                pc' = "Terminated" ]_vars
    /\ [][ (mode = "interactive" /\ last'.outcome = "interrupt") =>
                pc' = "Terminated" ]_vars
    /\ [][ pc # "Terminated" ]_vars

NoCredential(c) ==
    /\ c.flag = <<>>
    /\ c.env = <<>>
    /\ (c.file = <<"missing">> \/ Strip(c.file) = <<>>)

\* The run has ended with code 1 and has read no input, called no model,
\* gated and run no command
EndedUnstarted ==
    /\ pc = "Terminated"
    /\ exit_code = 1
    /\ mode = "none"
    /\ user_input = NoText
    /\ full_prompt = <<>>
    /\ response_text = NoText
    /\ asked = <<>>
    /\ ran = <<>>

\* C16 as stated: when no credential is available the process exits with
\* code 1 without reading input, calling the model, gating or running a
\* command, whatever the arguments.
C16_NoCredentialExitsOne ==
    (last.call = "credentials" /\ NoCredential(last.value)) => EndedUnstarted

\* C16, amended: when no credential is available and --set-key is not
\* given, the process exits with code 1 without reading input, calling the
\* model, gating or running a command, whichever mode the arguments ask
\* for; a mode only ever runs with a credential that is not blank.
C16_NoCredentialIsFatal ==
    /\ (last.call = "credentials" /\ NoCredential(last.value)
            /\ ~args.set_key) => EndedUnstarted
    /\ (pc = "Terminated" /\ last.call = "credentials" /\ ~args.set_key) =>
            NoCredential(last.value)
    /\ mode # "none" => Strip(api_key) # <<>>

\* The interactive mode was asked for, the credential file is blank and the
\* run has ended with code 1
C16_Witness ==
    /\ args.interactive
    /\ ~args.set_key
    /\ last.call = "credentials"
    /\ last.value.file = <<" ">>
    /\ exit_code = 1
    /\ pc = "Terminated"

\* C17: under --safe-mode, when the answer for a candidate is negative
\* ('n') the command is not run and 'skipped' is reported for it, in the
\* single prompt mode as in the interactive mode.
C17_NegativeAnswerSkips ==
    (/\ last.call = "confirm"
     /\ last.outcome = "returned"
     /\ Lower(last.value) = <<"n">>) =>
        /\ pc # "Executing"
        /\ asked # <<>> => Last(asked) \notin {ran[n] : n \in 1..Len(ran)}
        /\ output = <<"skipped">>

\* ------------------------------------------- the claims on the extraction (2)

\* The candidates, as a set
Returned(cs) == {cs[n] : n \in 1..Len(cs)}

\* C21: a fenced block that holds a comment-only line (first non-blank
\* character '#'), wherever the line stands, is discarded as a whole and
\* yields no candidate, also when it holds command lines.
C21_CommentDiscardsBlock ==
    pc = "Extracted" =>
        \A b \in Blocks(Lines) :
            (\E k \in (b[1] + 1)..(b[2] - 1) : IsComment(Lines[k])) =>
                BlockText(Lines, b) \notin Returned(commands)

\* ------------------------------------------- the claims on the session (3)

\* C22: an interrupt that arrives in AwaitingInput or CallingModel ends the
\* run: no candidate of the current turn or of a later one is gated or
\* run, and no turn is appended to the session.
C22_Cancellation ==
    /\ [][ (/\ pc \in {"AwaitingInput", "CallingModel"}
             /\ last'.outcome = "interrupt") =>
                /\ pc' = "Terminated"
                /\ asked' = <<>>
                /\ ran' = <<>>
                /\ history' = history
                /\ completed' = completed ]_vars
    /\ [][ pc # "Terminated" ]_vars

\* The model call of a later turn of a session was interrupted
C22_Witness ==
    /\ pc = "Terminated"
    /\ mode = "interactive"
    /\ last = Came("model", "interrupt", <<>>)
    /\ completed >= 1
    /\ variant = "enhanced" => Len(history) = completed

\* C23: in the interactive loop the run ends only through the exit keyword
\* or an interrupt: every other error of a turn, the failing read of the
\* user input included, is caught and reported and the loop waits for
\* input again, the history unchanged; a read that keeps failing never
\* ends the run.
C23_OnlyExitOrInterrupt ==
    /\ [][ (mode = "interactive" /\ pc' = "Terminated") =>
                \/ /\ last'.call = "input"
                   /\ last'.outcome = "returned"
                   /\ Lower(Strip(last'.value)) \in ExitWords
                \/ last'.outcome = "interrupt" ]_vars
    /\ [][ (mode = "interactive" /\ last'.outcome = "raised") =>
                /\ pc' = "AwaitingInput"
                /\ output' = <<"error">>
                /\ history' = history ]_vars

\* The read of the user input has failed in a session of some turns and the
\* loop waits for input
C23_Witness ==
    /\ mode = "interactive"
    /\ pc = "AwaitingInput"
    /\ last = Came("input", "raised", <<>>)
    /\ completed >= 2

\* C24: in the interactive loop of gemini_enhanced the turn is appended
\* only after the whole loop over the candidates: when an interrupt or an
\* error (a failing confirmation read) comes during Gating or Executing,
\* the turn is not appended, although the model call returned and earlier
\* candidates of the turn may have run, and the candidates left are not
\* handled.
C24_AppendAfterLoop ==
    /\ [][ (/\ variant = "enhanced"
             /\ mode = "interactive"
             /\ pc \in {"Gating", "Executing"}
             /\ last'.outcome \in {"raised", "interrupt"}) =>
                /\ history' = history
                /\ completed' = completed
                /\ ran' \in {ran, <<>>}
                /\ \/ pc' = "Terminated"
                   \/ pc' = "AwaitingInput" /\ commands' = <<>> ]_vars
    /\ [][ (/\ variant = "enhanced"
             /\ mode = "interactive"
             /\ history' # history) =>
                /\ last'.outcome = "returned"
                /\ pc' = "AwaitingInput"
                /\ pc = "CallingModel" \/ idx = Len(commands) ]_vars

\* gemini_enhanced, interactive: the confirmation read of a later candidate
\* was interrupted after an earlier candidate of the turn had run, and the
\* turn is not in the history
C24_Witness ==
    /\ variant = "enhanced"
    /\ mode = "interactive"
    /\ pc = "Terminated"
    /\ last = Came("confirm", "interrupt", <<>>)
    /\ Len(ran) >= 1
    /\ idx <= Len(commands)
    /\ Len(history) = completed

\* C25: in the interactive mode an empty input line and the keyword clear
\* (in any case) consume the line without a model call, without gating or
\* running a command and without a change of the history; the loop stays
\* in AwaitingInput.
C25_NoOpInputs ==
    [][ (/\ mode = "interactive"
         /\ pc = "AwaitingInput"
         /\ last'.call = "input"
         /\ last'.outcome = "returned"
         /\ \/ Strip(last'.value) = <<>>
            \/ Lower(Strip(last'.value)) = <<"c","l","e","a","r">>) =>
            /\ pc' = "AwaitingInput"
            /\ history' = history
            /\ completed' = completed
            /\ full_prompt' = full_prompt
            /\ response_text' = response_text
            /\ asked' = asked
            /\ ran' = ran ]_vars

\* CLEAR was typed in a session of some turns
C25_Witness ==
    /\ mode = "interactive"
    /\ pc = "AwaitingInput"
    /\ last = Came("input", "returned", <<"C","L","E","A","R">>)
    /\ output = <<"clear">>
    /\ completed >= 1

\* The run is a piped one: no prompt argument, no --interactive, stdin not
\* a terminal (gemini_fixed ends such a run where it starts)
PipedRun ==
    \/ mode = "piped"
    \/ /\ variant = "fixed"
       /\ mode = "help"
       /\ last = Came("isatty", "returned", <<"pipe">>)

\* In a piped run no command is run and no confirmation is asked, whatever
\* the flags; gemini_fixed calls no model and prints the help
PipedRunsNothing ==
    /\ PipedRun =>
         /\ asked = <<>>
         /\ ran = <<>>
         /\ commands = <<>>
         /\ pc \notin {"Gating", "Executing"}
    /\ (PipedRun /\ variant = "fixed") =>
         /\ pc = "Terminated"
         /\ output = <<"help">>
         /\ full_prompt = <<>>
         /\ response_text = NoText
    /\ (variant = "enhanced" /\ mode = "piped" /\ pc = "Terminated"
            /\ last.call = "model" /\ last.outcome = "returned") =>
         /\ output = <<"response">>
         /\ response_text = last.value
         /\ exit_code = 0

\* C26 as stated: in a piped run no command is run and no confirmation is
\* asked, gemini_enhanced makes one model call and prints the response
\* without extracting, gemini_fixed makes no model call and prints the
\* help.
C26_PipedMode ==
    /\ PipedRunsNothing
    /\ (variant = "enhanced" /\ mode = "piped" /\ pc = "Terminated") =>
         last.call = "model"

\* C26, amended: in a piped run no command is run and no confirmation is
\* asked, whatever the flags; gemini_enhanced makes one model call when the
\* piped text is not blank, and none when it is blank, and prints the
\* response without extracting, also under --execute; gemini_fixed makes
\* no model call and prints the help.
C26_PipedModeNonBlank ==
    /\ []PipedRunsNothing
    /\ []((variant = "enhanced" /\ mode = "piped" /\ pc = "Terminated") =>
             IF user_input = NoText THEN last.call = "isatty"
             ELSE last.call = "model")
    /\ [][ (mode' = "piped" /\ pc' = "CallingModel") => pc = "Startup" ]_vars

\* gemini_enhanced under --execute has printed a piped response that holds
\* commands, and has run none
C26_Witness ==
    /\ variant = "enhanced"
    /\ args.execute
    /\ mode = "piped"
    /\ pc = "Terminated"
    /\ last = Came("model", "returned", RespCmds)
    /\ ran = <<>>

\* C27: in gemini_fixed the prompt of an interactive turn is a function of
\* the current user input alone, the system preamble and that input: two
\* runs that differ in their earlier turns only send the same prompt for
\* the same input, and no history is carried from turn to turn.
C27_FixedPromptStateless ==
    (variant = "fixed" /\ mode = "interactive" /\ pc = "CallingModel") =>
        /\ user_input = Strip(last.value)
        /\ full_prompt = <<Preamble("fixed"), Pending(user_input)>>
        /\ history = <<>>

\* gemini_fixed sends the prompt of the third turn of a session whose
\* earlier turns ran commands
C27_Witness ==
    /\ variant = "fixed"
    /\ mode = "interactive"
    /\ pc = "CallingModel"
    /\ completed >= 2
    /\ args.execute
====
